---- MODULE Spec2Model ----
(***************************************************************************)
(* Model of spectr's bytecode compiler (src/stack.rs), of the abstract     *)
(* stack machine its instruction stream targets, and of the parts of the   *)
(* tree-walking evaluator (src/eval.rs, src/types.rs) that define value    *)
(* equality and function application.                                      *)
(***************************************************************************)
EXTENDS Integers, Sequences, FiniteSets, TLC

(***************************************************************************)
(* Bounds.                                                                 *)
(***************************************************************************)
\* largest number literal used in generated programs
MaxNum == 2
\* deepest nesting of calls the executor is followed into
MaxCallDepth == 4

(***************************************************************************)
(* The AST consumed by the translator (crate::token), one constructor per  *)
(* node kind matched in stack.rs.                                          *)
(***************************************************************************)
Statement(definitions, body) == [definitions |-> definitions, body |-> body]
Expression_Comparison(c) == [tag |-> "Comparison", c |-> c]
Expression_If(cond, cons, alt) == [tag |-> "If", cond |-> cond, cons |-> cons, alt |-> alt]
Comparison(left, rights) == [left |-> left, rights |-> rights]
ComparisonRight_Equal(r) == [kind |-> "Equal", r |-> r]
ComparisonRight_NotEqual(r) == [kind |-> "NotEqual", r |-> r]
Additive(left, rights) == [left |-> left, rights |-> rights]
AdditiveRight_Add(r) == [kind |-> "Add", r |-> r]
AdditiveRight_Sub(r) == [kind |-> "Sub", r |-> r]
Multitive(left, rights) == [left |-> left, rights |-> rights]
MultitiveRight_Mul(r) == [kind |-> "Mul", r |-> r]
MultitiveRight_Div(r) == [kind |-> "Div", r |-> r]
MultitiveRight_Surplus(r) == [kind |-> "Surplus", r |-> r]
Operation(left, rights) == [left |-> left, rights |-> rights]
OperationRight_Access(name) == [kind |-> "Access", name |-> name]
OperationRight_Call(args) == [kind |-> "Call", args |-> args]
OperationRight_Index(arg) == [kind |-> "Index", arg |-> arg]
Primary_Number(n) == [tag |-> "Number", n |-> n]
Primary_String(s) == [tag |-> "String", s |-> s]
Primary_Variable(name) == [tag |-> "Variable", name |-> name]
Primary_Block(statement) == [tag |-> "Block", statement |-> statement]
Primary_Function(args, body) == [tag |-> "Function", args |-> args, body |-> body]
Primary_Struct(definitions) == [tag |-> "Struct", definitions |-> definitions]
Primary_Array(items) == [tag |-> "Array", items |-> items]

(***************************************************************************)
(* enum Cmd: the opcodes of the instruction stream.                        *)
(***************************************************************************)
Cmd_Add == [op |-> "Add"]
Cmd_Sub == [op |-> "Sub"]
Cmd_Div == [op |-> "Div"]
Cmd_Mul == [op |-> "Mul"]
Cmd_Surplus == [op |-> "Surplus"]
Cmd_Equal == [op |-> "Equal"]
Cmd_NotEqual == [op |-> "NotEqual"]
Cmd_Load(index, depth) == [op |-> "Load", index |-> index, depth |-> depth]
Cmd_NumberConst(n) == [op |-> "NumberConst", n |-> n]
Cmd_StringConst(s) == [op |-> "StringConst", s |-> s]
Cmd_ArrayConst(n) == [op |-> "ArrayConst", len |-> n]
Cmd_ConstructFunction(n) == [op |-> "ConstructFunction", len |-> n]
Cmd_ForeignFunction == [op |-> "ForeignFunction"]
Cmd_StructAddr(map) == [op |-> "StructAddr", map |-> map]
Cmd_Label(id, n) == [op |-> "Label", id |-> id, len |-> n]
Cmd_LabelAddr(id) == [op |-> "LabelAddr", id |-> id]
Cmd_JumpRel(n) == [op |-> "JumpRel", len |-> n]
Cmd_JumpRelIf(n) == [op |-> "JumpRelIf", len |-> n]
Cmd_Call(n) == [op |-> "Call", argc |-> n]
Cmd_Index == [op |-> "Index"]
Cmd_Access == [op |-> "Access"]

\* enum Identifier
Identifier_Bind(id) == [kind |-> "Bind", id |-> id]
Identifier_Arg(i) == [kind |-> "Arg", id |-> i]

(***************************************************************************)
(* What a translate_* function produces: the Vec<Cmd> it returns (cmd),    *)
(* the identifier it panicked on, if it panicked (err, empty or one name,  *)
(* the first panic in the order the code translates), and, position by     *)
(* position of cmd, a record of what the opcode was emitted for (orig):    *)
(* the name and translator of an identifier reference, the name of a       *)
(* definition, the parameter list of a function literal.    orig is not     *)
(* part of the stream; it is what the properties below are stated about.   *)
(***************************************************************************)
Result(cmd, err, orig) == [cmd |-> cmd, err |-> err, orig |-> orig]
OrigNone == [kind |-> "none"]
OrigRef(name, self) == [kind |-> "ref", name |-> name, scope |-> self]
OrigDef(name) == [kind |-> "def", name |-> name]
OrigFn(args) == [kind |-> "fn", args |-> args]
Emit(c, o) == Result(<<c>>, <<>>, <<o>>)
Nothing == Result(<<>>, <<>>, <<>>)
\* a translated before b, a's code placed before b's
Then(a, b) ==
  Result(a.cmd \o b.cmd, IF Len(a.err) > 0 THEN a.err ELSE b.err, a.orig \o b.orig)

(***************************************************************************)
(* struct Translator { env, bind_cnt, parent }                             *)
(***************************************************************************)
EmptyEnv == [x \in {} |-> Identifier_Bind(0)]

new == [env |-> EmptyEnv, bind_cnt |-> 0, parent |-> <<>>]

fork(self) == [env |-> EmptyEnv, bind_cnt |-> self.bind_cnt, parent |-> <<self>>]

\* HashMap::insert: a later insertion of the same key replaces the earlier
insert(env, name, v) == (name :> v) @@ env

\* a lookup that forgets to count the hop to the parent
RECURSIVE get_bind_unhopped(_, _)
get_bind_unhopped(self, name) ==
  IF name \in DOMAIN self.env
  THEN <<[addr |-> self.env[name], depth |-> 0]>>
  ELSE IF Len(self.parent) = 0 THEN <<>>
       ELSE get_bind_unhopped(self.parent[1], name)
RECURSIVE get_bind(_, _)
get_bind(self, name) ==
  IF name \in DOMAIN self.env
  THEN <<[addr |-> self.env[name], depth |-> 0]>>
  ELSE IF Len(self.parent) = 0
       THEN <<>>
       ELSE LET r == get_bind(self.parent[1], name)
            IN IF Len(r) = 0 THEN <<>>
               ELSE <<[addr |-> r[1].addr, depth |-> r[1].depth + 1]>>

\* a translation that lets an undeclared name stand for the import label
translate_identifier_defaulting(self, name) ==
  LET id == IF Len(get_bind(self, name)) = 0 THEN get_bind(self, "import")
            ELSE get_bind(self, name)
  IN IF id[1].addr.kind = "Bind"
     THEN Then(Emit(Cmd_LabelAddr(id[1].addr.id), OrigRef(name, self)),
               Emit(Cmd_Call(0), OrigNone))
     ELSE Emit(Cmd_Load(id[1].addr.id, id[1].depth), OrigRef(name, self))
translate_identifier(self, name) ==
  LET id == get_bind(self, name)
  IN IF Len(id) = 0
     THEN Result(<<>>, <<name>>, <<>>)
     ELSE IF id[1].addr.kind = "Bind"
          THEN Then(Emit(Cmd_LabelAddr(id[1].addr.id), OrigRef(name, self)),
                    Emit(Cmd_Call(0), OrigNone))
          ELSE Emit(Cmd_Load(id[1].addr.id, id[1].depth), OrigRef(name, self))

\* the declaration loops of translate (lines 104-110) and of
\* Primary::Struct (lines 256-263): one fresh id per definition
RECURSIVE declare(_, _, _)
declare(translator, definitions, i) ==
  IF i > Len(definitions) THEN translator
  ELSE declare([translator EXCEPT
                  !.env = insert(translator.env, definitions[i][1],
                                 Identifier_Bind(translator.bind_cnt)),
                  !.bind_cnt = translator.bind_cnt + 1],
               definitions, i + 1)

\* the name-to-id map built by Primary::Struct next to the declarations
RECURSIVE struct_map(_, _, _, _)
struct_map(map, id, definitions, i) ==
  IF i > Len(definitions) THEN map
  ELSE struct_map(insert(map, definitions[i][1], id), id + 1, definitions, i + 1)

RECURSIVE translate(_, _)
RECURSIVE translate_expression(_, _)
RECURSIVE translate_comparison(_, _)
RECURSIVE translate_additive(_, _)
RECURSIVE translate_multitive(_, _)
RECURSIVE translate_operation(_, _)
RECURSIVE translate_primary(_, _)
RECURSIVE emit_binds(_, _, _, _)
RECURSIVE comparison_rights(_, _, _)
RECURSIVE additive_rights(_, _, _)
RECURSIVE multitive_rights(_, _, _)
RECURSIVE operation_rights(_, _, _)
RECURSIVE call_args(_, _, _)
RECURSIVE array_items(_, _, _)

\* the loop "for (id, body) in binds": Label(id, body length), then the body
\* a body translated knowing only the definitions up to its own: resolution
\* by source order
emit_binds_in_source_order(translator, first_id, definitions, i) ==
  IF i > Len(definitions) THEN Nothing
  ELSE LET later == {definitions[j][1] : j \in (i + 1)..Len(definitions)}
           so_far == [translator EXCEPT
                        !.env = [x \in DOMAIN translator.env \ later |-> translator.env[x]]]
           body_cmd == translate_expression(so_far, definitions[i][2])
           id == first_id + i - 1
       IN Then(Emit(Cmd_Label(id, Len(body_cmd.cmd)), OrigDef(definitions[i][1])),
               Then(body_cmd, emit_binds(translator, first_id, definitions, i + 1)))
emit_binds(translator, first_id, definitions, i) ==
  IF i > Len(definitions) THEN Nothing
  ELSE LET body_cmd == translate_expression(translator, definitions[i][2])
           id == first_id + i - 1
       IN Then(Emit(Cmd_Label(id, Len(body_cmd.cmd)), OrigDef(definitions[i][1])),
               Then(body_cmd, emit_binds(translator, first_id, definitions, i + 1)))

translate(self, v) ==
  LET id == self.bind_cnt
      self1 == [self EXCEPT !.env = insert(self.env, "import", Identifier_Bind(id)),
                            !.bind_cnt = id + 1]
      import == Then(Emit(Cmd_Label(id, 1), OrigDef("import")),
                     Emit(Cmd_ForeignFunction, OrigNone))
      self2 == declare(self1, v.definitions, 1)
  IN Then(Then(import, emit_binds(self2, self1.bind_cnt, v.definitions, 1)),
          translate_expression(self2, v.body))

translate_expression(self, v) ==
  IF v.tag = "Comparison" THEN translate_comparison(self, v.c)
  ELSE LET cond_cmd == translate_expression(self, v.cond)
           cons_cmd == translate_expression(self, v.cons)
           alt0 == translate_expression(self, v.alt)
           alt_cmd == Then(alt0, Emit(Cmd_JumpRel(Len(cons_cmd.cmd) + 1), OrigNone))
           cmd == Then(Then(cond_cmd, Emit(Cmd_JumpRelIf(Len(alt_cmd.cmd) + 1), OrigNone)),
                       Then(alt_cmd, cons_cmd))
       IN \* cons is translated before alt and placed after it
          Result(cmd.cmd, Then(cond_cmd, Then(cons_cmd, alt_cmd)).err, cmd.orig)

comparison_rights(self, rights, i) ==
  IF i > Len(rights) THEN Nothing
  ELSE Then(Then(translate_additive(self, rights[i].r),
                 Emit(IF rights[i].kind = "Equal" THEN Cmd_Equal ELSE Cmd_NotEqual, OrigNone)),
            comparison_rights(self, rights, i + 1))

translate_comparison(self, v) ==
  Then(translate_additive(self, v.left), comparison_rights(self, v.rights, 1))

additive_rights(self, rights, i) ==
  IF i > Len(rights) THEN Nothing
  ELSE Then(Then(translate_multitive(self, rights[i].r),
                 Emit(IF rights[i].kind = "Add" THEN Cmd_Add ELSE Cmd_Sub, OrigNone)),
            additive_rights(self, rights, i + 1))

translate_additive(self, v) ==
  Then(translate_multitive(self, v.left), additive_rights(self, v.rights, 1))

multitive_rights(self, rights, i) ==
  IF i > Len(rights) THEN Nothing
  ELSE Then(Then(translate_operation(self, rights[i].r),
                 Emit(CASE rights[i].kind = "Mul" -> Cmd_Mul
                        [] rights[i].kind = "Div" -> Cmd_Div
                        [] OTHER -> Cmd_Surplus, OrigNone)),
            multitive_rights(self, rights, i + 1))

translate_multitive(self, v) ==
  Then(translate_operation(self, v.left), multitive_rights(self, v.rights, 1))

call_args(self, args, i) ==
  IF i > Len(args) THEN Nothing
  ELSE Then(translate_expression(self, args[i]), call_args(self, args, i + 1))

\* an index whose result is left unforced
operation_rights_unforced(self, rights, i) ==
  IF i > Len(rights) THEN Nothing
  ELSE LET right == rights[i]
           one == CASE right.kind = "Access" ->
                         Then(Emit(Cmd_StringConst(right.name), OrigNone),
                              Then(Emit(Cmd_Access, OrigNone), Emit(Cmd_Call(0), OrigNone)))
                    [] right.kind = "Call" ->
                         Then(call_args(self, right.args, 1),
                              Emit(Cmd_Call(Len(right.args)), OrigNone))
                    [] OTHER ->
                         Then(translate_expression(self, right.arg), Emit(Cmd_Index, OrigNone))
       IN Then(one, operation_rights(self, rights, i + 1))
\* a property access that forgets to push the property name
operation_rights_nameless(self, rights, i) ==
  IF i > Len(rights) THEN Nothing
  ELSE LET right == rights[i]
           one == CASE right.kind = "Access" ->
                         Then(Emit(Cmd_Access, OrigNone), Emit(Cmd_Call(0), OrigNone))
                    [] right.kind = "Call" ->
                         Then(call_args(self, right.args, 1),
                              Emit(Cmd_Call(Len(right.args)), OrigNone))
                    [] OTHER ->
                         Then(translate_expression(self, right.arg),
                              Then(Emit(Cmd_Index, OrigNone), Emit(Cmd_Call(0), OrigNone)))
       IN Then(one, operation_rights(self, rights, i + 1))
operation_rights(self, rights, i) ==
  IF i > Len(rights) THEN Nothing
  ELSE LET right == rights[i]
           one == CASE right.kind = "Access" ->
                         Then(Emit(Cmd_StringConst(right.name), OrigNone),
                              Then(Emit(Cmd_Access, OrigNone), Emit(Cmd_Call(0), OrigNone)))
                    [] right.kind = "Call" ->
                         Then(call_args(self, right.args, 1),
                              Emit(Cmd_Call(Len(right.args)), OrigNone))
                    [] OTHER ->
                         Then(translate_expression(self, right.arg),
                              Then(Emit(Cmd_Index, OrigNone), Emit(Cmd_Call(0), OrigNone)))
       IN Then(one, operation_rights(self, rights, i + 1))

translate_operation(self, v) ==
  Then(translate_primary(self, v.left), operation_rights(self, v.rights, 1))

\* an element thunk whose length counts the ConstructFunction itself
array_items_counting_itself(self, items, i) ==
  IF i > Len(items) THEN Nothing
  ELSE LET item_cmd == translate_expression(self, items[i])
       IN Then(Emit(Cmd_ConstructFunction(Len(item_cmd.cmd) + 1), OrigFn(<<>>)),
               Then(item_cmd, array_items(self, items, i + 1)))
array_items(self, items, i) ==
  IF i > Len(items) THEN Nothing
  ELSE LET item_cmd == translate_expression(self, items[i])
       IN Then(Emit(Cmd_ConstructFunction(Len(item_cmd.cmd)), OrigFn(<<>>)),
               Then(item_cmd, array_items(self, items, i + 1)))

\* the loop "for (i, arg) in args.iter().enumerate()" of Primary::Function
RECURSIVE declare_args(_, _, _)
declare_args(env, args, i) ==
  IF i > Len(args) THEN env
  ELSE declare_args(insert(env, args[i], Identifier_Arg(i - 1)), args, i + 1)

translate_primary(self, v) ==
  CASE v.tag = "Number" -> Emit(Cmd_NumberConst(v.n), OrigNone)
    [] v.tag = "String" -> Emit(Cmd_StringConst(v.s), OrigNone)
    [] v.tag = "Variable" -> translate_identifier(self, v.name)
    [] v.tag = "Block" -> translate(fork(self), v.statement)
    [] v.tag = "Function" ->
         LET translator0 == fork(self)
             translator == [translator0 EXCEPT !.env = declare_args(translator0.env, v.args, 1)]
             body_cmd == translate_expression(translator, v.body)
         IN Then(Emit(Cmd_ConstructFunction(Len(body_cmd.cmd)), OrigFn(v.args)),
                 body_cmd)
    [] v.tag = "Struct" ->
         LET translator0 == fork(self)
             translator == declare(translator0, v.definitions, 1)
             map == struct_map(EmptyEnv, translator0.bind_cnt, v.definitions, 1)
         IN Then(emit_binds(translator, translator0.bind_cnt, v.definitions, 1),
                 Emit(Cmd_StructAddr(map), OrigNone))
    [] OTHER ->
         Then(array_items(self, v.items, 1), Emit(Cmd_ArrayConst(Len(v.items)), OrigNone))

get_cmd(ast) == translate(new, ast)

(***************************************************************************)
(* The programs the compiler is run on.  Each is an AST as the parser      *)
(* hands it over; the comments give the source text.                       *)
(***************************************************************************)
Names == {"a", "b"}
Nums == 1..MaxNum

\* an operation, multitive, additive, comparison, expression that is just p
OfPrimary(p) == Operation(p, <<>>)
MulOf(p) == Multitive(OfPrimary(p), <<>>)
AddOf(p) == Additive(MulOf(p), <<>>)
E(p) == Expression_Comparison(Comparison(AddOf(p), <<>>))
Num(n) == E(Primary_Number(n))
Var(x) == E(Primary_Variable(x))
\* p followed by the postfix chain rights
Post(p, rights) ==
  Expression_Comparison(Comparison(Additive(Multitive(Operation(p, rights), <<>>), <<>>), <<>>))
\* p + q, p == q
Sum(p, q) ==
  Expression_Comparison(Comparison(Additive(MulOf(p), <<AdditiveRight_Add(MulOf(q))>>), <<>>))
Eq(p, q) ==
  Expression_Comparison(Comparison(AddOf(p), <<ComparisonRight_Equal(AddOf(q))>>))
\* { x: d, body }
Block1(x, d, body) == Primary_Block(Statement(<<<<x, d>>>>, body))
Paren(e) == Primary_Block(Statement(<<>>, e))
Top(e) == Statement(<<>>, e)

Right(kind, r) == [kind |-> kind, r |-> r]
Literals == {Primary_Number(n) : n \in Nums} \cup {Primary_String("a")}

\* n * m + 1, n / m - 1, n % m, ... with every arithmetic operator
ArithPrograms ==
  {Top(Expression_Comparison(Comparison(
      Additive(Multitive(OfPrimary(Primary_Number(n)), mr), ar), <<>>))) :
     n \in Nums,
     mr \in {<<>>} \cup {<<Right(k, OfPrimary(Primary_Number(m)))>> :
                           m \in 0..MaxNum, k \in {"Mul", "Div", "Surplus"}},
     ar \in {<<>>} \cup {<<Right(k, MulOf(Primary_Number(1)))>> : k \in {"Add", "Sub"}}}

\* p == q, p != q, p == q == r, ... over number and string literals
ComparisonRights ==
  LET one == {<<Right(k, AddOf(q))>> : k \in {"Equal", "NotEqual"}, q \in Literals}
  IN one \cup {r1 \o r2 : r1 \in one, r2 \in one}
ComparisonPrograms ==
  {Top(Expression_Comparison(Comparison(AddOf(p), rs))) :
     p \in Literals, rs \in ComparisonRights}

\* { x: n, B1 } + { y: m, B2 } with B1 either x or n, B2 either y or m
SiblingBlockPrograms ==
  {Top(Sum(Block1(x, Num(n), IF b1 THEN Var(x) ELSE Num(n)),
           Block1(y, Num(m), IF b2 THEN Var(y) ELSE Num(m)))) :
     x \in Names, y \in Names, n \in {1}, m \in Nums, b1 \in BOOLEAN, b2 \in BOOLEAN}

\* { x: 1 }.x + { y: m }.y   and   { a: 1, b: 2 }.z   and   { a: 1 }["a"]
StructPrograms ==
  {Top(Expression_Comparison(Comparison(Additive(
      Multitive(Operation(Primary_Struct(<<<<x, Num(1)>>>>), <<OperationRight_Access(x)>>), <<>>),
      <<AdditiveRight_Add(Multitive(
          Operation(Primary_Struct(<<<<y, Num(m)>>>>), <<OperationRight_Access(y)>>), <<>>))>>),
      <<>>))) : x \in Names, y \in Names, m \in Nums}
  \cup {Top(Post(Primary_Struct(<<<<"a", Num(1)>>, <<"b", Num(2)>>>>),
                 <<OperationRight_Access(z)>>)) : z \in Names \cup {"c"}}
  \cup {Top(Post(Primary_Struct(<<<<"a", Num(n)>>>>),
                 <<OperationRight_Index(E(Primary_String(z)))>>)) : n \in Nums, z \in Names}

\* if n == m then T else U, the branches literals or blocks
Branches ==
  {Num(1), Num(2), E(Block1("a", Num(1), Var("a"))), E(Block1("b", Num(2), Var("b")))}
IfPrograms ==
  {Top(Expression_If(Eq(Primary_Number(n), Primary_Number(m)), t, u)) :
     n \in Nums, m \in Nums, t \in Branches, u \in Branches}
  \cup {Top(Expression_If(Num(n), Num(1), Num(2))) : n \in Nums}

\* function literals and calls
Fn(args, body) == Primary_Function(args, body)
CallOf(f, args) == Post(f, <<OperationRight_Call(args)>>)
FunctionPrograms ==
  \* ((x) => x)(n)
  {Top(CallOf(Fn(<<x>>, Var(x)), <<Num(n)>>)) : x \in Names, n \in Nums}
  \* ((x, y) => z)(n, m)   (x = y: a repeated parameter)
  \cup {Top(CallOf(Fn(<<x, y>>, Var(z)), <<Num(n), Num(m)>>)) :
          x \in Names, y \in Names, z \in Names, n \in {1}, m \in {2}}
  \* ((a, b) => z)(n)   and   ((a) => a)(n, m)   and   ((a) => a)()
  \cup {Top(CallOf(Fn(<<"a", "b">>, Var(z)), <<Num(n)>>)) : z \in Names, n \in Nums}
  \cup {Top(CallOf(Fn(<<"a">>, Var("a")), <<Num(n), Num(m)>>)) : n \in Nums, m \in Nums}
  \cup {Top(CallOf(Fn(<<"a">>, Var("a")), <<>>))}
  \* ((x) => (y) => z + 1)(n)(m)
  \cup {Top(Post(Fn(<<x>>, E(Fn(<<y>>, Sum(Primary_Variable(z), Primary_Number(1))))),
                 <<OperationRight_Call(<<Num(n)>>), OperationRight_Call(<<Num(m)>>)>>)) :
          x \in Names, y \in Names, z \in Names, n \in {1}, m \in {2}}
  \* ((x) => { y: x, z })(n)
  \cup {Top(CallOf(Fn(<<x>>, E(Block1(y, Var(x), Var(z)))), <<Num(n)>>)) :
          x \in Names, y \in Names, z \in Names, n \in Nums}
  \* f: (x) => x + 1, f(n)   and   x: n, f: (y) => { x: 1 }.x + y, f(2)
  \cup {Statement(<<<<"f", E(Fn(<<x>>, Sum(Primary_Variable(x), Primary_Number(1))))>>>>,
                  CallOf(Primary_Variable("f"), <<Num(n)>>)) : x \in Names, n \in Nums}
  \cup {Statement(<<<<x, Num(n)>>,
                    <<"f", E(Fn(<<y>>, Expression_Comparison(Comparison(Additive(
                       Multitive(Operation(Primary_Struct(<<<<x, Num(1)>>>>),
                                           <<OperationRight_Access(x)>>), <<>>),
                       <<AdditiveRight_Add(MulOf(Primary_Variable(y)))>>), <<>>))))>>>>,
                  CallOf(Primary_Variable("f"), <<Num(2)>>)) :
          x \in Names, y \in Names, n \in Nums}

\* names declared at several depths, forward and self reference, definitions never used
ScopePrograms ==
  \* x: n, { y: m, z }   and   x: n, { y: m, w: z }.w   and   x: n, ((y) => z)(m)
  {Statement(<<<<x, Num(n)>>>>, E(Block1(y, Num(m), Var(z)))) :
     x \in Names, y \in Names, z \in Names, n \in {1}, m \in {2}}
  \cup {Statement(<<<<x, Num(n)>>>>,
                  Post(Primary_Struct(<<<<y, Num(m)>>, <<"w", Var(z)>>>>),
                       <<OperationRight_Access("w")>>)) :
          x \in Names, y \in Names, z \in Names, n \in {1}, m \in {2}}
  \cup {Statement(<<<<x, Num(n)>>>>, CallOf(Fn(<<y>>, Var(z)), <<Num(m)>>)) :
          x \in Names, y \in Names, z \in Names, n \in {1}, m \in {2}}
  \* a: b, b: n, z   and   a: a, a   and   x: y, n
  \cup {Statement(<<<<"a", Var("b")>>, <<"b", Num(n)>>>>, Var(z)) : n \in Nums, z \in Names}
  \cup {Statement(<<<<"a", Var("a")>>>>, Var("a"))}
  \cup {Statement(<<<<x, Var(y)>>>>, Num(n)) : x \in Names, y \in Names, n \in Nums}
  \* x   and   if 1 == 1 then x else y   and   (x) => y   and   { { n } }
  \cup {Top(Var(x)) : x \in Names}
  \cup {Top(Expression_If(Eq(Primary_Number(1), Primary_Number(1)), Var(x), Var(y))) :
          x \in Names, y \in Names}
  \cup {Top(CallOf(Fn(<<x>>, Var(y)), <<Num(1)>>)) : x \in Names, y \in Names}
  \cup {Top(E(Paren(E(Paren(Num(n)))))) : n \in Nums}
  \* x: n, ((y) => { w: m, z })(m)   and   a: n, a(m)
  \cup {Statement(<<<<x, Num(n)>>>>,
                  CallOf(Fn(<<y>>, E(Block1("w", Num(m), Var(z)))), <<Num(m)>>)) :
          x \in Names, y \in Names, z \in Names, n \in {1}, m \in {2}}
  \cup {Statement(<<<<"a", Num(n)>>>>, CallOf(Primary_Variable("a"), <<Num(m)>>)) :
          n \in Nums, m \in Nums}

\* [n, m][k]   and   [n][x]   and   import("m")   and   import(n)
ArrayPrograms ==
  {Top(Post(Primary_Array(<<Num(n), Num(m)>>), <<OperationRight_Index(Num(k))>>)) :
     n \in Nums, m \in Nums, k \in 0..2}
  \cup {Top(CallOf(Fn(<<x>>, Post(Primary_Array(<<Var(x)>>), <<OperationRight_Index(Num(0))>>)),
                   <<Num(n)>>)) : x \in Names, n \in Nums}
  \cup {Top(CallOf(Primary_Variable("import"), <<E(Primary_String("m"))>>)),
        Top(CallOf(Primary_Variable("import"), <<Num(1)>>))}

\* x + 1   and   { a: x }.a   as multitive operands
PlusOne(x) == Sum(Primary_Variable(x), Primary_Number(1))
FieldOf(x) == Post(Primary_Struct(<<<<"a", Var(x)>>>>), <<OperationRight_Access("a")>>)

\* definitions, functions, conditionals, structs and arrays inside one another
NestedPrograms ==
  \* f: (x) => if x == n then [x + 1][0] else { a: x }.a, f(m)
  {Statement(<<<<"f", E(Fn(<<x>>, Expression_If(
                        Eq(Primary_Variable(x), Primary_Number(n)),
                        Post(Primary_Array(<<PlusOne(x)>>), <<OperationRight_Index(Num(0))>>),
                        FieldOf(x))))>>>>,
             CallOf(Primary_Variable("f"), <<Num(m)>>)) : x \in Names, n \in Nums, m \in Nums}
  \* a: b, b: a, z   and   a: { c: b, c }, b: n, a   and   { a: b, b: n }.z
  \cup {Statement(<<<<"a", Var("b")>>, <<"b", Var("a")>>>>, Var(z)) : z \in Names}
  \cup {Statement(<<<<"a", E(Block1("c", Var("b"), Var("c")))>>, <<"b", Num(n)>>>>, Var("a")) :
          n \in Nums}
  \cup {Top(Post(Primary_Struct(<<<<"a", Var("b")>>, <<"b", Num(n)>>>>),
                 <<OperationRight_Access(z)>>)) : n \in Nums, z \in Names}
  \* ((x) => (y) => { c: x, z })(n)(m)   and   ((x) => [{ c: 1, x }][0])(n)
  \cup {Top(Post(Fn(<<x>>, E(Fn(<<y>>, E(Block1("c", Var(x), Var(z)))))),
                 <<OperationRight_Call(<<Num(n)>>), OperationRight_Call(<<Num(m)>>)>>)) :
          x \in Names, y \in Names, z \in Names \cup {"c"}, n \in {1}, m \in {2}}
  \cup {Top(CallOf(Fn(<<x>>, Post(Primary_Array(<<E(Block1("c", Num(1), Var(x)))>>),
                                  <<OperationRight_Index(Num(0))>>)),
                   <<Num(n)>>)) : x \in Names, n \in Nums}
  \* ((x, y) => z)(n + 1, { a: m, a })
  \cup {Top(CallOf(Fn(<<"a", "b">>, Var(z)),
                   <<Sum(Primary_Number(n), Primary_Number(1)),
                     E(Block1("a", Num(m), Var("a")))>>)) : z \in Names, n \in Nums, m \in Nums}
  \* { f: (a, b) => [z][0] }.f(n + 1, m)
  \cup {Top(Post(Primary_Struct(<<<<"f", E(Fn(<<"a", "b">>,
                      Post(Primary_Array(<<Var(z)>>), <<OperationRight_Index(Num(0))>>)))>>>>),
                 <<OperationRight_Access("f"),
                   OperationRight_Call(<<Sum(Primary_Number(n), Primary_Number(1)), Num(m)>>)>>)) :
          z \in Names, n \in Nums, m \in Nums}

Programs ==
  ArithPrograms \cup ComparisonPrograms \cup SiblingBlockPrograms \cup StructPrograms
  \cup IfPrograms \cup FunctionPrograms \cup ScopePrograms \cup ArrayPrograms
  \cup NestedPrograms

(***************************************************************************)
(* Runtime values of the stack machine.  An Address remembers which kind   *)
(* of opcode pushed it, for which name and out of which struct (via, name,  *)
(* struct); a Struct remembers the position of the StructAddr that built   *)
(* it (at).                                                                *)
(***************************************************************************)
Value_Number(n) == [t |-> "Number", n |-> n]
\* a float that is no integer: a fraction, an infinity or NaN
Value_NonInteger == [t |-> "Number", f |-> "NonInteger"]
Value_String(s) == [t |-> "String", s |-> s]
Value_Boolean(b) == [t |-> "Boolean", b |-> b]
Value_List(items) == [t |-> "List", items |-> items]
Value_Struct(map, at) == [t |-> "Struct", map |-> map, at |-> at]
Value_Closure(entry, n, frame) == [t |-> "Closure", entry |-> entry, len |-> n, frame |-> frame]
Value_HostCallable == [t |-> "HostCallable"]
Value_Address(addr, n, via, name, struct) ==
  [t |-> "Address", addr |-> addr, len |-> n, via |-> via, name |-> name, struct |-> struct]

\* what a module import may evaluate to
HostResults == {Value_Number(1), Value_String("m")}

VARIABLES
  ast,      \* the AST handed to get_cmd
  status,   \* "source", "panicked", "compiled", "running", "done", "fault"
  cmd,      \* the instruction stream get_cmd returned
  orig,     \* what each position of cmd was emitted for
  err,      \* the identifier named by the panic, if get_cmd panicked
  labels,   \* the executor's address resolution: bind id -> position of its Label
  pc,       \* instruction pointer (positions count from 1)
  stack,    \* operand stack, top last
  rets,     \* pending returns, innermost last
  frames,   \* argument frames created so far
  cur,      \* the active argument frame (0: none)
  fault,    \* kind of the runtime fault
  entered,  \* history: the label bodies entered, with the address used
  ifs,      \* history: the conditionals whose branch is being executed
  nexec     \* number of instructions executed

\* the tree-walking evaluator: one application of a function value, and one
\* evaluation of a comparison chain
VARIABLES
  arg_names,   \* the parameter names of the Type::Function being called
  args,        \* the argument values of the call
  call_state,  \* "none", "ready", "body" (the body is being evaluated)
  evaluated,   \* the bindings of the environment the body is evaluated in
  left,        \* the value of the comparison's left operand
  rights,      \* the comparison's right operands: kind and value
  bases        \* the values base has taken, the current one last

evalVars == <<arg_names, args, call_state, evaluated, left, rights, bases>>

vars == <<ast, status, cmd, orig, err, labels, pc, stack, rets, frames, cur, fault,
          entered, ifs, nexec, evalVars>>

EmptyMap == [x \in {} |-> 0]

\* nothing compiled, nothing running
NoCompiler ==
  /\ cmd = <<>> /\ orig = <<>> /\ err = <<>>
  /\ labels = EmptyMap
  /\ pc = 0 /\ stack = <<>> /\ rets = <<>> /\ frames = <<>> /\ cur = 0
  /\ fault = "" /\ entered = <<>> /\ ifs = <<>> /\ nexec = 0

\* no function being applied, no comparison being evaluated
NoCall == arg_names = <<>> /\ args = <<>> /\ call_state = "none" /\ evaluated = EmptyMap
NoComparison == left = <<>> /\ rights = <<>> /\ bases = <<>>

Init ==
  /\ ast \in Programs
  /\ status = "source"
  /\ NoCompiler
  /\ NoCall
  /\ NoComparison

\* get_cmd: the stream, or a panic that leaves the caller without one
GetCmd ==
  /\ status = "source"
  /\ LET r == get_cmd(ast)
     IN IF Len(r.err) > 0
        THEN status' = "panicked" /\ err' = r.err /\ cmd' = <<>> /\ orig' = <<>>
        ELSE status' = "compiled" /\ err' = <<>> /\ cmd' = r.cmd /\ orig' = r.orig
  /\ UNCHANGED <<ast, labels, pc, stack, rets, frames, cur, fault, entered, ifs, nexec, evalVars>>

(***************************************************************************)
(* The executor.                                                           *)
(***************************************************************************)
LabelIds == {cmd[p].id : p \in {q \in 1..Len(cmd) : cmd[q].op = "Label"}}
LabelPositions(id) == {p \in 1..Len(cmd) : cmd[p].op = "Label" /\ cmd[p].id = id}

\* every way of mapping each bind id to a Label carrying it
RECURSIVE Resolutions(_)
Resolutions(ids) ==
  IF ids = {} THEN {EmptyMap}
  ELSE LET id == CHOOSE i \in ids : TRUE
       IN {(id :> p) @@ m : p \in LabelPositions(id), m \in Resolutions(ids \ {id})}

\* address resolution, then execution starts at the first instruction
Run ==
  /\ status = "compiled"
  /\ \E m \in Resolutions(LabelIds) : labels' = m
  /\ status' = "running"
  /\ pc' = 1
  /\ UNCHANGED <<ast, cmd, orig, err, stack, rets, frames, cur, fault, entered, ifs, nexec, evalVars>>

Returning == Len(rets) > 0 /\ pc = rets[Len(rets)].end
At(op) ==
  /\ status = "running"
  /\ ~Returning
  /\ pc \in 1..Len(cmd)
  /\ cmd[pc].op = op

Peek(k) == stack[Len(stack) + 1 - k]
Pop(k) == SubSeq(stack, 1, Len(stack) - k)

\* a conditional is left when control reaches its exit at the depth it started at
RECURSIVE Expire(_, _, _)
Expire(active, npc, depth) ==
  IF Len(active) > 0 /\ active[Len(active)].exit = npc /\ active[Len(active)].depth = depth
  THEN Expire(SubSeq(active, 1, Len(active) - 1), npc, depth)
  ELSE active

Go(npc, nstack, nrets, nframes, ncur, nifs, nentered, n) ==
  /\ pc' = npc
  /\ stack' = nstack
  /\ rets' = nrets
  /\ frames' = nframes
  /\ cur' = ncur
  /\ ifs' = Expire(nifs, npc, Len(nrets))
  /\ entered' = nentered
  /\ nexec' = nexec + n
  /\ UNCHANGED <<ast, status, cmd, orig, err, labels, fault, evalVars>>

Next1(nstack) == Go(pc + 1, nstack, rets, frames, cur, ifs, entered, 1)

Fault(kind) ==
  /\ status' = "fault"
  /\ fault' = kind
  /\ nexec' = nexec + 1
  /\ UNCHANGED <<ast, cmd, orig, err, labels, pc, stack, rets, frames, cur, entered, ifs, evalVars>>

ExecNumberConst == At("NumberConst") /\ Next1(Append(stack, Value_Number(cmd[pc].n)))

ExecStringConst == At("StringConst") /\ Next1(Append(stack, Value_String(cmd[pc].s)))

ExecForeignFunction == At("ForeignFunction") /\ Next1(Append(stack, Value_HostCallable))

IsInteger(v) == v.t = "Number" /\ "n" \in DOMAIN v
Abs(n) == IF n < 0 THEN -n ELSE n
\* f64 arithmetic on the integers, leaving them where the result is no integer
Arith(op, a, b) ==
  IF ~IsInteger(a) \/ ~IsInteger(b) THEN Value_NonInteger
  ELSE CASE op = "Add" -> Value_Number(a.n + b.n)
         [] op = "Sub" -> Value_Number(a.n - b.n)
         [] op = "Mul" -> Value_Number(a.n * b.n)
         [] op = "Div" ->
              IF b.n = 0 \/ Abs(a.n) % Abs(b.n) # 0 THEN Value_NonInteger
              ELSE Value_Number((IF (a.n < 0) = (b.n < 0) THEN 1 ELSE -1)
                                * (Abs(a.n) \div Abs(b.n)))
         [] OTHER ->
              IF b.n = 0 THEN Value_NonInteger
              ELSE Value_Number((IF a.n < 0 THEN -1 ELSE 1) * (Abs(a.n) % Abs(b.n)))

ExecArith ==
  \E op \in {"Add", "Sub", "Mul", "Div", "Surplus"} :
    /\ At(op)
    /\ IF Len(stack) < 2 THEN Fault("StackUnderflow")
       ELSE IF Peek(1).t # "Number" \/ Peek(2).t # "Number" THEN Fault("TypeMismatch")
       ELSE Next1(Append(Pop(2), Arith(op, Peek(2), Peek(1))))

Comparable(v) == v.t \in {"Number", "String", "Boolean"}

ExecEqual ==
  \E op \in {"Equal", "NotEqual"} :
    /\ At(op)
    /\ IF Len(stack) < 2 THEN Fault("StackUnderflow")
       ELSE IF ~Comparable(Peek(1)) \/ ~Comparable(Peek(2)) THEN Fault("TypeMismatch")
       ELSE IF Peek(1) = Value_NonInteger \/ Peek(2) = Value_NonInteger
            THEN \E b \in BOOLEAN : Next1(Append(Pop(2), Value_Boolean(b)))
            ELSE Next1(Append(Pop(2), Value_Boolean((Peek(2) = Peek(1)) = (op = "Equal"))))

\* the frame depth hops outward of frame f (0: there is none)
RECURSIVE Outward(_, _)
Outward(f, depth) ==
  IF depth = 0 \/ f = 0 THEN f ELSE Outward(frames[f].parent, depth - 1)

ExecLoad ==
  /\ At("Load")
  /\ LET f == Outward(cur, cmd[pc].depth)
     IN IF f = 0 \/ cmd[pc].index >= Len(frames[f].args) THEN Fault("UnboundArgument")
        ELSE Next1(Append(stack, frames[f].args[cmd[pc].index + 1]))

\* straight-line flow steps over a label and its body
ExecLabel ==
  /\ At("Label")
  /\ Go(pc + 1 + cmd[pc].len, stack, rets, frames, cur, ifs, entered, 1)

ExecLabelAddr ==
  /\ At("LabelAddr")
  /\ IF cmd[pc].id \notin DOMAIN labels THEN Fault("UnresolvedLabel")
     ELSE LET p == labels[cmd[pc].id]
          IN Next1(Append(stack, Value_Address(p + 1, cmd[p].len, "LabelAddr", orig[pc].name, 0)))

ExecConstructFunction ==
  /\ At("ConstructFunction")
  /\ Go(pc + 1 + cmd[pc].len, Append(stack, Value_Closure(pc + 1, cmd[pc].len, cur)),
        rets, frames, cur, ifs, entered, 1)

ExecStructAddr == At("StructAddr") /\ Next1(Append(stack, Value_Struct(cmd[pc].map, pc)))

ExecArrayConst ==
  /\ At("ArrayConst")
  /\ IF Len(stack) < cmd[pc].len THEN Fault("StackUnderflow")
     ELSE Next1(Append(Pop(cmd[pc].len),
                       Value_List(SubSeq(stack, Len(stack) - cmd[pc].len + 1, Len(stack)))))

ExecJumpRel ==
  /\ At("JumpRel")
  /\ Go(pc + cmd[pc].len, stack, rets, frames, cur, ifs, entered, 1)

\* pops the condition; jumps when it is true
ExecJumpRelIf ==
  /\ At("JumpRelIf")
  /\ IF Len(stack) < 1 THEN Fault("StackUnderflow")
     ELSE IF Peek(1).t # "Boolean" THEN Fault("TypeMismatch")
     ELSE LET q == pc + cmd[pc].len - 1   \* the JumpRel that ends the alternate
              exit == q + cmd[q].len
              entry == [at |-> pc, exit |-> exit, depth |-> Len(rets),
                        lo |-> IF Peek(1).b THEN pc + 1 ELSE q + 1,
                        hi |-> IF Peek(1).b THEN q ELSE exit - 1]
          IN Go(IF Peek(1).b THEN pc + cmd[pc].len ELSE pc + 1, Pop(1), rets, frames, cur,
                Append(ifs, entry), entered, 1)

\* the field of a struct, as the address of its label
Field(struct, name, via) ==
  LET p == labels[struct.map[name]]
  IN Value_Address(p + 1, cmd[p].len, via, name, struct.at)

ExecAccess ==
  /\ At("Access")
  /\ IF Len(stack) < 2 THEN Fault("StackUnderflow")
     ELSE IF Peek(1).t # "String" \/ Peek(2).t # "Struct" THEN Fault("TypeMismatch")
     ELSE IF Peek(1).s \notin DOMAIN Peek(2).map THEN Fault("TypeMismatch")
     ELSE IF Peek(2).map[Peek(1).s] \notin DOMAIN labels THEN Fault("UnresolvedLabel")
     ELSE Next1(Append(Pop(2), Field(Peek(2), Peek(1).s, "Access")))

ExecIndex ==
  /\ At("Index")
  /\ IF Len(stack) < 2 THEN Fault("StackUnderflow")
     ELSE IF Peek(2).t = "Struct" /\ Peek(1).t = "String"
          THEN IF Peek(1).s \notin DOMAIN Peek(2).map THEN Fault("TypeMismatch")
               ELSE IF Peek(2).map[Peek(1).s] \notin DOMAIN labels THEN Fault("UnresolvedLabel")
               ELSE Next1(Append(Pop(2), Field(Peek(2), Peek(1).s, "Index")))
     ELSE IF Peek(2).t = "List" /\ IsInteger(Peek(1))
          THEN IF Peek(1).n < 0 \/ Peek(1).n >= Len(Peek(2).items) THEN Fault("TypeMismatch")
               ELSE Next1(Append(Pop(2), Peek(2).items[Peek(1).n + 1]))
     ELSE Fault("TypeMismatch")

Callee == Peek(cmd[pc].argc + 1)
Args == SubSeq(stack, Len(stack) - cmd[pc].argc + 1, Len(stack))
\* base: the stack depth left under the callee and its arguments
Pending(target, n) ==
  [ret |-> pc + 1, target |-> target, end |-> target + n, frame |-> cur,
   base |-> Len(stack) - cmd[pc].argc - 1]

\* Call(n) on an address: run the label body, come back with its value
ExecCallAddress ==
  /\ At("Call")
  /\ Len(stack) > cmd[pc].argc
  /\ Callee.t = "Address"
  /\ cmd[pc].argc = 0
  /\ Len(rets) < MaxCallDepth
  /\ Go(Callee.addr, Pop(1), Append(rets, Pending(Callee.addr, Callee.len)), frames, cur, ifs,
        Append(entered, [via |-> Callee.via, name |-> Callee.name, label |-> Callee.addr - 1,
                         struct |-> Callee.struct]),
        1)

\* Call(n) on a closure: a fresh argument frame on top of the captured one
\* (fn: the position of the ConstructFunction the frame was made for)
ExecCallClosure ==
  /\ At("Call")
  /\ Len(stack) > cmd[pc].argc
  /\ Callee.t = "Closure"
  /\ Len(rets) < MaxCallDepth
  /\ Go(Callee.entry, Pop(cmd[pc].argc + 1), Append(rets, Pending(Callee.entry, Callee.len)),
        Append(frames, [args |-> Args, parent |-> Callee.frame, fn |-> Callee.entry - 1]),
        Len(frames) + 1, ifs,
        entered, 1)

\* Call(n) on a host callable: its result, or its failure
ExecCallHost ==
  /\ At("Call")
  /\ Len(stack) > cmd[pc].argc
  /\ Callee.t = "HostCallable"
  /\ \/ Fault("HostBridgeFailure")
     \/ /\ cmd[pc].argc > 0
        /\ Peek(1).t = "String"
        /\ \E v \in HostResults : Next1(Append(Pop(cmd[pc].argc + 1), v))

ExecCallFault ==
  /\ At("Call")
  /\ IF Len(stack) <= cmd[pc].argc THEN Fault("StackUnderflow")
     ELSE /\ \/ Callee.t \notin {"Address", "Closure", "HostCallable"}
             \/ Callee.t = "Address" /\ cmd[pc].argc # 0
          /\ Fault("TypeMismatch")

\* the end of a called body: back to the instruction after the call
Return ==
  /\ status = "running"
  /\ Returning
  /\ Go(rets[Len(rets)].ret, stack, SubSeq(rets, 1, Len(rets) - 1), frames,
        rets[Len(rets)].frame, ifs, entered, 0)

Halt ==
  /\ status = "running"
  /\ Len(rets) = 0
  /\ pc = Len(cmd) + 1
  /\ status' = "done"
  /\ UNCHANGED <<ast, cmd, orig, err, labels, pc, stack, rets, frames, cur, fault,
                 entered, ifs, nexec, evalVars>>

Next ==
  \/ GetCmd
  \/ Run
  \/ ExecNumberConst
  \/ ExecStringConst
  \/ ExecForeignFunction
  \/ ExecArith
  \/ ExecEqual
  \/ ExecLoad
  \/ ExecLabel
  \/ ExecLabelAddr
  \/ ExecConstructFunction
  \/ ExecStructAddr
  \/ ExecArrayConst
  \/ ExecJumpRel
  \/ ExecJumpRelIf
  \/ ExecAccess
  \/ ExecIndex
  \/ ExecCallAddress
  \/ ExecCallClosure
  \/ ExecCallHost
  \/ ExecCallFault
  \/ Return
  \/ Halt

Spec == Init /\ [][Next]_vars

(***************************************************************************)
(* The tree-walking evaluator's values (enum Type) and their equality.     *)
(***************************************************************************)
Type_Number(n) == [t |-> "Number", n |-> n]
Type_String(s) == [t |-> "String", s |-> s]
Type_Boolean(b) == [t |-> "Boolean", b |-> b]
Type_List(items) == [t |-> "List", items |-> items]

\* an equality that reads a Boolean as the number 1 or 0
Type_eq_coercing(a, b) ==
  LET num(v) == IF v.t = "Boolean" THEN Type_Number(IF v.b THEN 1 ELSE 0) ELSE v
  IN num(a) = num(b)
\* #[derive(PartialEq)] on Type: the same variant and equal fields
Type_eq(a, b) ==
  CASE a.t = "Number" /\ b.t = "Number" -> a.n = b.n
    [] a.t = "String" /\ b.t = "String" -> a.s = b.s
    [] a.t = "Boolean" /\ b.t = "Boolean" -> a.b = b.b
    [] a.t = "List" /\ b.t = "List" -> a.items = b.items
    [] OTHER -> FALSE

\* longest comparison chain evaluated
MaxRights == 2
\* most arguments passed in a call
MaxArgs == 3

Types ==
  {Type_Number(n) : n \in 0..1} \cup {Type_String(s) : s \in {"a", "1"}}
  \cup {Type_Boolean(b) : b \in BOOLEAN} \cup {Type_List(<<>>)}

SeqsUpTo(S, n) == UNION {[1..k -> S] : k \in 0..n}

(***************************************************************************)
(* impl Evaluable for token::Comparison, one loop iteration per step.      *)
(***************************************************************************)
InitComparison ==
  /\ ast = <<>> /\ status = "evaluator" /\ NoCompiler /\ NoCall
  /\ left \in Types
  /\ rights \in SeqsUpTo([kind : {"Equal", "NotEqual"}, value : Types], MaxRights)
  /\ bases = <<>>

\* let mut base = self.left.eval(env)
ComparisonLeft ==
  /\ status = "evaluator"
  /\ bases = <<>>
  /\ bases' = <<left>>
  /\ UNCHANGED <<ast, status, cmd, orig, err, labels, pc, stack, rets, frames, cur, fault,
                 entered, ifs, nexec, arg_names, args, call_state, evaluated, left, rights>>

\* the body of "for right in self.rights"
ComparisonRight ==
  /\ Len(bases) \in 1..Len(rights)
  /\ LET base == bases[Len(bases)]
         right == rights[Len(bases)]
     IN bases' = Append(bases,
                        IF right.kind = "Equal"
                        THEN Type_Boolean(Type_eq(base, right.value))
                        ELSE Type_Boolean(~Type_eq(base, right.value)))
  /\ UNCHANGED <<ast, status, cmd, orig, err, labels, pc, stack, rets, frames, cur, fault,
                 entered, ifs, nexec, arg_names, args, call_state, evaluated, left, rights>>

NextComparison == ComparisonLeft \/ ComparisonRight

SpecComparison == InitComparison /\ [][NextComparison]_vars

(***************************************************************************)
(* Type::call on a Type::Function.                                         *)
(***************************************************************************)
InitCall ==
  /\ ast = <<>> /\ status = "evaluator" /\ NoCompiler /\ NoComparison
  /\ arg_names \in SeqsUpTo(Names, 2)
  /\ args \in SeqsUpTo({Type_Number(n) : n \in Nums}, MaxArgs)
  /\ call_state = "ready"
  /\ evaluated = EmptyMap

\* for (v, n) in args.into_iter().zip(arg_names.iter()) { evaluated.insert(n, v) }
RECURSIVE zip_insert(_, _, _, _)
zip_insert(map, values, names, i) ==
  IF i > Len(values) \/ i > Len(names) THEN map
  ELSE zip_insert(insert(map, names[i], values[i]), values, names, i + 1)

\* the Type::Function arm: bind, then evaluate the body in the new environment
Type_call ==
  /\ call_state = "ready"
  /\ evaluated' = zip_insert(EmptyMap, args, arg_names, 1)
  /\ call_state' = "body"
  /\ UNCHANGED <<ast, status, cmd, orig, err, labels, pc, stack, rets, frames, cur, fault,
                 entered, ifs, nexec, arg_names, args, left, rights, bases>>

NextCall == Type_call

SpecCall == InitCall /\ [][NextCall]_vars

(***************************************************************************)
(* Properties.                                                             *)
(***************************************************************************)
LabelAt(p) == p \in 1..Len(cmd) /\ cmd[p].op = "Label"
\* control is inside the body of the label at p
InBody(p) == status = "running" /\ ~Returning /\ pc > p /\ pc <= p + cmd[p].len
\* a pending call went into the body of the label at p: to its start, or to a
\* function constructed inside it
CalledInto(p) ==
  \E r \in 1..Len(rets) : rets[r].target > p /\ rets[r].target <= p + cmd[p].len

\* C1: in the stream get_cmd returns, no two Label opcodes carry the same
\* bind id, whichever blocks or struct literals they were emitted for.
C1_BindIdsUnique ==
  \A p, q \in 1..Len(cmd) :
    (LabelAt(p) /\ LabelAt(q) /\ cmd[p].id = cmd[q].id) => p = q

\* the local mappings of a translator and of its ancestors, innermost first
RECURSIVE ScopeChain(_)
ScopeChain(self) ==
  <<self.env>> \o (IF Len(self.parent) = 0 THEN <<>> ELSE ScopeChain(self.parent[1]))
Declaring(chain, name) == {k \in 1..Len(chain) : name \in DOMAIN chain[k]}

\* C2: every identifier reference is translated to the declaration of the
\* innermost frame of its defining scope chain that declares the name: a Load
\* of that frame's argument index with the number of parent hops to the frame
\* as depth, or the LabelAddr of that frame's bind id.
C2_LexicalResolution ==
  \A i \in 1..Len(orig) :
    orig[i].kind = "ref" =>
      LET chain == ScopeChain(orig[i].scope)
          frames_declaring == Declaring(chain, orig[i].name)
      IN /\ frames_declaring # {}
         /\ LET k == CHOOSE d \in frames_declaring : \A j \in frames_declaring : d <= j
                decl == chain[k][orig[i].name]
            IN IF decl.kind = "Arg"
               THEN cmd[i] = Cmd_Load(decl.id, k - 1)
               ELSE cmd[i] = Cmd_LabelAddr(decl.id)

\* a parameter reference one hop out, its name declared again further out
C2_Witness ==
  \E i \in 1..Len(orig) :
    /\ orig[i].kind = "ref"
    /\ cmd[i].op = "Load"
    /\ cmd[i].depth >= 1
    /\ Cardinality(Declaring(ScopeChain(orig[i].scope), orig[i].name)) >= 2

\* C3: a label body is entered only by Call(0) on the address a LabelAddr
\* pushed for a reference to the name the label defines, and straight-line
\* flow never runs inside a label body (control is inside one only during a
\* call into it).
C3_CallByNeed ==
  /\ \A k \in 1..Len(entered) :
       entered[k].via = "LabelAddr" => orig[entered[k].label].name = entered[k].name
  /\ \A p \in 1..Len(cmd) : (LabelAt(p) /\ InBody(p)) => CalledInto(p)

\* the labels emitted for the fields of the struct literal whose StructAddr is at s
RECURSIVE IsFieldLabel(_, _)
IsFieldLabel(p, s) ==
  /\ LabelAt(p)
  /\ LET after == p + cmd[p].len + 1
     IN after = s \/ (after < s /\ IsFieldLabel(after, s))

\* C4: forcing .name on a struct enters the body of the label that the
\* struct literal emitted for its field `name`, and no field body runs
\* while the struct is constructed.
C4_StructFieldsLazy ==
  /\ \A k \in 1..Len(entered) :
       entered[k].via = "Access" =>
         /\ orig[entered[k].label].name = entered[k].name
         /\ IsFieldLabel(entered[k].label, entered[k].struct)
  /\ \A s \in 1..Len(cmd) :
       cmd[s].op = "StructAddr" =>
         \A p \in 1..s : (IsFieldLabel(p, s) /\ InBody(p)) => CalledInto(p)

\* C5: while a conditional is being executed, no instruction of the branch
\* that was not chosen is executed (cond true: none of alt; cond false: none
\* of cons).
C5_OneBranch ==
  \A k \in 1..Len(ifs) :
    (/\ status = "running"
     /\ ~Returning
     /\ \A j \in (k + 1)..Len(ifs) : ifs[j].at # ifs[k].at)
    => ~(pc >= ifs[k].lo /\ pc <= ifs[k].hi)

\* C7: a function value is never applied to a number of arguments other
\* than its parameter count: the body is evaluated only when they agree.
C7_ArityMismatchIsFatal ==
  call_state = "body" => Len(args) = Len(arg_names)

\* the names an AST refers to that no enclosing scope declares
RECURSIVE FreeStatement(_, _)
RECURSIVE FreeExpression(_, _)
RECURSIVE FreeChain(_, _, _)
RECURSIVE FreeOperation(_, _)
RECURSIVE FreePrimary(_, _)
DefinedNames(definitions) == {definitions[i][1] : i \in 1..Len(definitions)}
FreeStatement(v, bound) ==
  LET inner == bound \cup {"import"} \cup DefinedNames(v.definitions)
  IN UNION {FreeExpression(v.definitions[i][2], inner) : i \in 1..Len(v.definitions)}
     \cup FreeExpression(v.body, inner)
FreeExpression(v, bound) ==
  IF v.tag = "Comparison" THEN FreeChain(3, v.c, bound)
  ELSE FreeExpression(v.cond, bound) \cup FreeExpression(v.cons, bound)
       \cup FreeExpression(v.alt, bound)
\* comparison (3), additive (2), multitive (1): a left operand and right operands
FreeChain(level, v, bound) ==
  IF level = 0 THEN FreeOperation(v, bound)
  ELSE FreeChain(level - 1, v.left, bound)
       \cup UNION {FreeChain(level - 1, v.rights[i].r, bound) : i \in 1..Len(v.rights)}
FreeOperation(v, bound) ==
  FreePrimary(v.left, bound)
  \cup UNION {LET right == v.rights[i]
              IN CASE right.kind = "Access" -> {}
                   [] right.kind = "Call" ->
                        UNION {FreeExpression(right.args[j], bound) : j \in 1..Len(right.args)}
                   [] OTHER -> FreeExpression(right.arg, bound) : i \in 1..Len(v.rights)}
FreePrimary(v, bound) ==
  CASE v.tag \in {"Number", "String"} -> {}
    [] v.tag = "Variable" -> IF v.name \in bound THEN {} ELSE {v.name}
    [] v.tag = "Block" -> FreeStatement(v.statement, bound)
    [] v.tag = "Function" ->
         FreeExpression(v.body, bound \cup {v.args[i] : i \in 1..Len(v.args)})
    [] v.tag = "Struct" ->
         UNION {FreeExpression(v.definitions[i][2], bound \cup DefinedNames(v.definitions)) :
                  i \in 1..Len(v.definitions)}
    [] OTHER -> UNION {FreeExpression(v.items[i], bound) : i \in 1..Len(v.items)}

\* C8: once get_cmd has been called on an AST that refers to a name no
\* enclosing scope declares, it has panicked naming such a name, the caller
\* holds no instruction stream, and no instruction has been or will be executed.
C8_UnboundIdentifierAborts ==
  (status # "source" /\ status # "evaluator" /\ FreeStatement(ast, {}) # {}) =>
    /\ status = "panicked"
    /\ Len(err) = 1 /\ err[1] \in FreeStatement(ast, {})
    /\ cmd = <<>>
    /\ pc = 0 /\ nexec = 0

\* get_cmd has panicked on the undeclared b of a program that also declares a
C8_Witness ==
  /\ status = "panicked"
  /\ err = <<"b">>
  /\ \E i \in 1..Len(ast.definitions) : ast.definitions[i][1] = "a"

\* C9: no instruction stream contains the code of a function literal whose
\* parameter list names the same parameter twice.
C9_DuplicateParameterRejected ==
  \A i \in 1..Len(orig) :
    orig[i].kind = "fn" =>
      \A j, k \in 1..Len(orig[i].args) : j # k => orig[i].args[j] # orig[i].args[k]

Payload(v) ==
  CASE v.t = "Number" -> v.n [] v.t = "String" -> v.s [] v.t = "Boolean" -> v.b
    [] OTHER -> v.items

\* C10: each step of a comparison chain yields a Boolean; between values of
\* different variants Equal yields false and NotEqual true; between two
\* Numbers, two Strings or two Booleans Equal yields whether the payloads
\* are equal and NotEqual the opposite; every step after the first compares
\* the Boolean of the step before with the next operand.
C10_EqualityNoCoercion ==
  \A k \in 1..(Len(bases) - 1) :
    LET prev == bases[k]
        right == rights[k]
        result == bases[k + 1]
    IN /\ result.t = "Boolean"
       /\ prev.t # right.value.t => result.b = (right.kind = "NotEqual")
       /\ (prev.t = right.value.t /\ prev.t \in {"Number", "String", "Boolean"}) =>
            result.b = ((Payload(prev) = Payload(right.value)) = (right.kind = "Equal"))
       /\ k = 1 => prev = left
       /\ k > 1 => prev.t = "Boolean"

\* 1 == 1 == 1 has been evaluated: true == 1 is false
C10_Witness ==
  /\ Len(bases) = 3
  /\ left = Type_Number(1)
  /\ rights = <<[kind |-> "Equal", value |-> Type_Number(1)],
                [kind |-> "Equal", value |-> Type_Number(1)]>>
  /\ bases[2] = Type_Boolean(TRUE)
  /\ bases[3] = Type_Boolean(FALSE)

(***************************************************************************)
(* The stack effect of each opcode, and the operand-stack depths straight- *)
(* line flow can arrive with at position e when it starts at position p    *)
(* with depth d (-1: it popped an empty stack or ran past e).  Label and   *)
(* ConstructFunction step over their bodies; JumpRelIf goes both ways.      *)
(***************************************************************************)
StackPops(c) ==
  CASE c.op \in {"Add", "Sub", "Mul", "Div", "Surplus", "Equal", "NotEqual",
                 "Index", "Access"} -> 2
    [] c.op = "JumpRelIf" -> 1
    [] c.op = "Call" -> c.argc + 1
    [] c.op = "ArrayConst" -> c.len
    [] OTHER -> 0
StackPushes(c) == IF c.op \in {"Label", "JumpRel", "JumpRelIf"} THEN 0 ELSE 1

RECURSIVE Depths(_, _, _)
Depths(p, e, d) ==
  IF p = e THEN {d}
  ELSE IF p > e \/ p < 1 \/ p > Len(cmd) THEN {-1}
  ELSE IF d < StackPops(cmd[p]) THEN {-1}
  ELSE LET c == cmd[p]
           nd == d - StackPops(c) + StackPushes(c)
       IN CASE c.op \in {"Label", "ConstructFunction"} -> Depths(p + 1 + c.len, e, nd)
            [] c.op = "JumpRel" -> Depths(p + c.len, e, nd)
            [] c.op = "JumpRelIf" -> Depths(p + 1, e, nd) \cup Depths(p + c.len, e, nd)
            [] OTHER -> Depths(p + 1, e, nd)

HasStream == status \in {"compiled", "running", "done", "fault"}

\* C11: the code of the whole program, of every definition body and of
\* every function or array-element body, entered with an empty operand stack,
\* reaches its end with exactly one value and never pops an empty stack,
\* whichever way its conditionals go; and in an execution every called body
\* comes back with exactly one value on top of the depth the call left,
\* never popping below it, and the run ends with one value.
C11_StackBalance ==
  /\ HasStream =>
       /\ Depths(1, Len(cmd) + 1, 0) = {1}
       /\ \A p \in 1..Len(cmd) :
            cmd[p].op \in {"Label", "ConstructFunction"} =>
              Depths(p + 1, p + 1 + cmd[p].len, 0) = {1}
  /\ \A r \in 1..Len(rets) : Len(stack) >= rets[r].base
  /\ (status = "running" /\ Returning) => Len(stack) = rets[Len(rets)].base + 1
  /\ status = "done" => Len(stack) = 1

\* f: (x) => x + 1, f(n) has run to its end: a definition forced, the
\* function it yields called with one argument, both calls come back
C11_Witness ==
  /\ status = "done"
  /\ Len(stack) = 1
  /\ nexec > 0
  /\ \E l, c, p \in 1..Len(cmd) :
       /\ cmd[l].op = "Label" /\ cmd[l].id > 0
       /\ cmd[c].op = "ConstructFunction" /\ c = l + 1 /\ cmd[c].len = 3
       /\ cmd[p].op = "Call" /\ cmd[p].argc = 1

\* the declaration a reference resolves to: that of the innermost frame of
\* its scope chain declaring the name
Declaration(i) ==
  LET chain == ScopeChain(orig[i].scope)
      frames_declaring == Declaring(chain, orig[i].name)
      k == CHOOSE d \in frames_declaring : \A j \in frames_declaring : d <= j
  IN chain[k][orig[i].name]

\* C12: a program all of whose names are declared by an enclosing block,
\* struct literal or function, before or after the place of the reference,
\* compiles; every reference to a definition is LabelAddr(id); Call(0) with
\* the id of a Label emitted for a definition of that name; and every
\* LabelAddr(id) of the stream has a Label(id, _) in the stream.
C12_ForwardReferenceResolves ==
  /\ (status # "source" /\ status # "evaluator" /\ FreeStatement(ast, {}) = {}) =>
       status # "panicked"
  /\ \A i \in 1..Len(orig) :
       (orig[i].kind = "ref" /\ Declaration(i).kind = "Bind") =>
         /\ cmd[i] = Cmd_LabelAddr(Declaration(i).id)
         /\ i + 1 <= Len(cmd) /\ cmd[i + 1] = Cmd_Call(0)
         /\ \E p \in 1..Len(cmd) :
              /\ LabelAt(p)
              /\ cmd[p].id = Declaration(i).id
              /\ orig[p] = OrigDef(orig[i].name)
  /\ \A i \in 1..Len(cmd) :
       cmd[i].op = "LabelAddr" => \E p \in 1..Len(cmd) : LabelAt(p) /\ cmd[p].id = cmd[i].id

\* a: b, b: a, ... has been compiled: the body of the first definition
\* refers to the second, declared after it, and the second to the first
C12_Witness ==
  /\ HasStream
  /\ \E la, lb \in 1..Len(cmd) :
       /\ LabelAt(la) /\ LabelAt(lb) /\ la < lb
       /\ \E i \in (la + 1)..(la + cmd[la].len) :
            /\ orig[i].kind = "ref" /\ cmd[i] = Cmd_LabelAddr(cmd[lb].id)
            /\ orig[i].name = orig[lb].name
       /\ \E j \in (lb + 1)..(lb + cmd[lb].len) :
            /\ orig[j].kind = "ref" /\ cmd[j] = Cmd_LabelAddr(cmd[la].id)
            /\ orig[j].name = orig[la].name

(***************************************************************************)
(* The layout of the code of an AST node in the stream.  EndOf...(v, p,    *)
(* lens) is the position right after the code of v when that code starts   *)
(* at position p, and 0 when the opcodes from p on are not the code of v.  *)
(* With lens, a Label or ConstructFunction must carry the length of the    *)
(* body that follows it, JumpRelIf must reach the first instruction of the *)
(* consequent and JumpRel the position right after it.                     *)
(***************************************************************************)
Is(p, c) == p \in 1..Len(cmd) /\ cmd[p] = c
OpAt(p, op) == p \in 1..Len(cmd) /\ cmd[p].op = op

RECURSIVE EndOfStatement(_, _, _)
RECURSIVE EndOfDefinitions(_, _, _, _)
RECURSIVE EndOfExpression(_, _, _)
RECURSIVE EndOfChain(_, _, _, _)
RECURSIVE EndOfRights(_, _, _, _, _)
RECURSIVE EndOfPostfix(_, _, _, _)
RECURSIVE EndOfArguments(_, _, _, _)
RECURSIVE EndOfPrimary(_, _, _)
RECURSIVE EndOfItems(_, _, _, _)

\* the import label, the definitions, the trailing expression
EndOfStatement(v, p, lens) ==
  IF ~(OpAt(p, "Label") /\ Is(p + 1, Cmd_ForeignFunction) /\ (lens => cmd[p].len = 1))
  THEN 0
  ELSE EndOfExpression(v.body, EndOfDefinitions(v.definitions, 1, p + 2, lens), lens)

\* Label, body, Label, body, ...
EndOfDefinitions(definitions, i, p, lens) ==
  IF p = 0 \/ i > Len(definitions) THEN p
  ELSE IF ~OpAt(p, "Label") THEN 0
  ELSE LET e == EndOfExpression(definitions[i][2], p + 1, lens)
       IN IF e = 0 \/ (lens /\ cmd[p].len # e - (p + 1)) THEN 0
          ELSE EndOfDefinitions(definitions, i + 1, e, lens)

\* cond, JumpRelIf, alt, JumpRel, cons
EndOfExpression(v, p, lens) ==
  IF p = 0 THEN 0
  ELSE IF v.tag = "Comparison" THEN EndOfChain(3, v.c, p, lens)
  ELSE LET c == EndOfExpression(v.cond, p, lens)
           a == IF c # 0 /\ OpAt(c, "JumpRelIf") THEN EndOfExpression(v.alt, c + 1, lens) ELSE 0
           k == IF a # 0 /\ OpAt(a, "JumpRel") THEN EndOfExpression(v.cons, a + 1, lens) ELSE 0
       IN IF k = 0 THEN 0
          ELSE IF lens /\ (c + cmd[c].len # a + 1 \/ a + cmd[a].len # k) THEN 0
          ELSE k

\* comparison (3), additive (2), multitive (1): left, then operand and operator
EndOfChain(level, v, p, lens) ==
  IF level = 0 THEN EndOfPostfix(v.rights, 1, EndOfPrimary(v.left, p, lens), lens)
  ELSE EndOfRights(level, v.rights, 1, EndOfChain(level - 1, v.left, p, lens), lens)

EndOfRights(level, rs, i, p, lens) ==
  IF p = 0 \/ i > Len(rs) THEN p
  ELSE LET e == EndOfChain(level - 1, rs[i].r, p, lens)
       IN IF e # 0 /\ OpAt(e, rs[i].kind) THEN EndOfRights(level, rs, i + 1, e + 1, lens)
          ELSE 0

\* .name   (args...)   [arg]
EndOfPostfix(rs, i, p, lens) ==
  IF p = 0 \/ i > Len(rs) THEN p
  ELSE LET right == rs[i]
           e == CASE right.kind = "Access" ->
                       IF /\ Is(p, Cmd_StringConst(right.name))
                          /\ Is(p + 1, Cmd_Access)
                          /\ Is(p + 2, Cmd_Call(0))
                       THEN p + 3 ELSE 0
                  [] right.kind = "Call" ->
                       LET a == EndOfArguments(right.args, 1, p, lens)
                       IN IF a # 0 /\ Is(a, Cmd_Call(Len(right.args))) THEN a + 1 ELSE 0
                  [] OTHER ->
                       LET a == EndOfExpression(right.arg, p, lens)
                       IN IF a # 0 /\ Is(a, Cmd_Index) /\ Is(a + 1, Cmd_Call(0))
                          THEN a + 2 ELSE 0
       IN EndOfPostfix(rs, i + 1, e, lens)

EndOfArguments(as, i, p, lens) ==
  IF p = 0 \/ i > Len(as) THEN p
  ELSE EndOfArguments(as, i + 1, EndOfExpression(as[i], p, lens), lens)

EndOfPrimary(v, p, lens) ==
  IF p = 0 THEN 0
  ELSE CASE v.tag = "Number" -> IF Is(p, Cmd_NumberConst(v.n)) THEN p + 1 ELSE 0
         [] v.tag = "String" -> IF Is(p, Cmd_StringConst(v.s)) THEN p + 1 ELSE 0
         [] v.tag = "Variable" ->
              IF OpAt(p, "Load") THEN p + 1
              ELSE IF OpAt(p, "LabelAddr") /\ Is(p + 1, Cmd_Call(0)) THEN p + 2
              ELSE 0
         [] v.tag = "Block" -> EndOfStatement(v.statement, p, lens)
         [] v.tag = "Function" ->
              IF ~OpAt(p, "ConstructFunction") THEN 0
              ELSE LET e == EndOfExpression(v.body, p + 1, lens)
                   IN IF e = 0 \/ (lens /\ cmd[p].len # e - (p + 1)) THEN 0 ELSE e
         [] v.tag = "Struct" ->
              LET e == EndOfDefinitions(v.definitions, 1, p, lens)
              IN IF e # 0 /\ OpAt(e, "StructAddr") THEN e + 1 ELSE 0
         [] OTHER ->
              LET e == EndOfItems(v.items, 1, p, lens)
              IN IF e # 0 /\ Is(e, Cmd_ArrayConst(Len(v.items))) THEN e + 1 ELSE 0

\* ConstructFunction, element, ConstructFunction, element, ...
EndOfItems(items, i, p, lens) ==
  IF p = 0 \/ i > Len(items) THEN p
  ELSE IF ~OpAt(p, "ConstructFunction") THEN 0
  ELSE LET e == EndOfExpression(items[i], p + 1, lens)
       IN IF e = 0 \/ (lens /\ cmd[p].len # e - (p + 1)) THEN 0
          ELSE EndOfItems(items, i + 1, e, lens)

\* C13: in every stream get_cmd returns, each Label(id, n) and each
\* ConstructFunction(n) is followed by exactly the n instructions of the
\* definition, function or array-element body it was emitted for, the last
\* of them inside the stream; each JumpRelIf(n) reaches the first instruction
\* of its consequent and each JumpRel(n) the position right after it, n past
\* the jump's own position and, counting positions from 0, at most the
\* stream length; whatever labels, functions and conditionals the bodies
\* contain.
C13_LengthWellFormed ==
  HasStream =>
    /\ EndOfStatement(ast, 1, TRUE) = Len(cmd) + 1
    /\ \A p \in 1..Len(cmd) :
         /\ cmd[p].op \in {"Label", "ConstructFunction"} => p + cmd[p].len <= Len(cmd)
         /\ cmd[p].op \in {"JumpRel", "JumpRelIf"} => (p - 1) + cmd[p].len <= Len(cmd)

\* a definition whose body is a function whose body is a conditional with an
\* array element in one branch and a struct field in the other
C13_Witness ==
  /\ HasStream
  /\ \E l \in 1..(Len(cmd) - 1) :
       LET c == l + 1
       IN /\ cmd[l].op = "Label" /\ cmd[l].id > 0
          /\ cmd[c].op = "ConstructFunction" /\ cmd[l].len = cmd[c].len + 1
          /\ \E j \in (c + 1)..(c + cmd[c].len) :
               /\ cmd[j].op = "JumpRelIf"
               /\ LET t == j + cmd[j].len
                  IN /\ t <= c + cmd[c].len
                     /\ cmd[t].op = "ConstructFunction" /\ cmd[t].len = 3
                     /\ \E g \in (j + 1)..(t - 1) : cmd[g].op = "Label" /\ cmd[g].len = 1

\* the function literal declaring the parameter that the reference at
\* position i names: the innermost ConstructFunction around i whose
\* parameter list holds the name (0: none)
DeclaringFunction(i) ==
  LET around == {c \in 1..(i - 1) :
                   /\ cmd[c].op = "ConstructFunction" /\ i <= c + cmd[c].len
                   /\ \E k \in 1..Len(orig[c].args) : orig[c].args[k] = orig[i].name}
  IN IF around = {} THEN 0 ELSE CHOOSE c \in around : \A b \in around : b <= c

\* C14: when the Load(index, depth) emitted for a parameter reference
\* executes, the frame depth steps outward of the active frame exists and is
\* a frame made by calling the function that declares the parameter, and no
\* frame nearer to the active one is.
C14_ArgLoadsReachDeclaringFrame ==
  (At("Load") /\ orig[pc].kind = "ref") =>
    LET f == Outward(cur, cmd[pc].depth)
    IN /\ f # 0
       /\ frames[f].fn = DeclaringFunction(pc)
       /\ \A h \in 0..(cmd[pc].depth - 1) : frames[Outward(cur, h)].fn # DeclaringFunction(pc)

\* C15: in every stream get_cmd returns, each Access has a StringConst right
\* before it and Call(0) right after it, each Index has Call(0) right after
\* it, and the stream is laid out as its AST says: for .name the StringConst
\* holds name, for [arg] the code of arg comes right before Index, and for
\* a call with n arguments the code of the arguments comes in source order,
\* left to right, with Call(n) right after the last.
C15_ForcingConvention ==
  HasStream =>
    /\ \A p \in 1..Len(cmd) :
         /\ cmd[p].op = "Access" => (OpAt(p - 1, "StringConst") /\ Is(p + 1, Cmd_Call(0)))
         /\ cmd[p].op = "Index" => Is(p + 1, Cmd_Call(0))
    /\ EndOfStatement(ast, 1, FALSE) = Len(cmd) + 1

\* { f: (a, b) => [z][0] }.f(n + 1, m) has been compiled: a property access,
\* then a call with the two arguments n + 1 and m in this order, and an index
C15_Witness ==
  /\ HasStream
  /\ \E a \in 2..Len(cmd) :
       /\ cmd[a].op = "Access" /\ cmd[a - 1] = Cmd_StringConst("f")
       /\ OpAt(a + 2, "NumberConst")
       /\ Is(a + 3, Cmd_NumberConst(1))
       /\ Is(a + 4, Cmd_Add)
       /\ OpAt(a + 5, "NumberConst")
       /\ Is(a + 6, Cmd_Call(2))
  /\ \E i \in 1..Len(cmd) : cmd[i].op = "Index"

====
